---- MODULE Spec2Model ----
(***************************************************************************)
(* The checkin relay of swarmdon: the push webhook (routes.rs), the poll   *)
(* loop and the watermark map (state.rs), the origin feed (swarm.rs) and   *)
(* the user directory and dispatcher (model.rs).                           *)
(***************************************************************************)
EXTENDS Integers, Sequences, FiniteSets, TLC

\* Account keys of the user directory ("instance_url:mastodon_id").
Users == {"u1", "u2"}
\* Origin-service (Swarm) user ids; a user's access token is modelled by the
\* id of the Swarm user it authenticates.
SwarmIds == {"s1", "s2"}
\* Number of checkins of the first swarm user, and of each other one.
MaxEvents == 2
MaxOther == 1
\* Number of checkins of the feed of the single-account specification.
MaxFeed == 4
\* Number of times the process is started.
MaxBoots == 2
\* Number of checkins one feed request returns.
PageSize == 3
\* Number of pieces a shout is put together from.
MaxChunks == 4
\* Number of bytes of a string field of a stored User.
MaxStr == 2
\* Lines of a friends-map file.
MaxLines == 2

\* A checkin is "shout" (public, with independent annotation), "noshout"
\* (public, get_shout gives None) or "private".
Kinds == {"shout", "noshout", "private"}

VARIABLES
    proc,           \* "down" | "running" | "panicked"
    with_polling,   \* flags.with_polling: last_checkin is Some(..)
    user,           \* db.user tree: account key -> User
    swarm_mapping,  \* db.swarm_mapping tree: swarm id -> account key
    feed,           \* origin service: swarm id -> checkins, oldest first
    last_checkin,   \* AppState.last_checkin: account key -> checkin id
    lock,           \* owner of the last_checkin mutex: "free" | "poll"
    phase,          \* poll task: "sleep" | "fetching" | "dispatching"
    snap,           \* the (id, last_checkin) pairs the fetch tasks captured
    task,           \* fetch tasks of the iteration: account -> result
    todo,           \* accounts of the joined HashMap not yet iterated
    cur,            \* account whose batch is being dispatched, or "none"
    batch,          \* its reversed checkins
    pos,            \* index in batch of the checkin being dispatched
    dpc,            \* poll task inside post_checkin: "details" | "post" | "update" | "none"
    ppc,            \* push handler: "idle" | "details" | "post" | "update"
    pev,            \* checkin id the push handler is dispatching
    puser,          \* account key the push handler resolved
    pushLog,        \* history: checkin id -> how its push delivery ended
    disp,           \* history: <<account, id>> pairs handed to post_checkin
    lastDisp,       \* history: account -> id last handed to post_checkin
    posted,         \* history: <<account, id>> pairs with a new_status call
    reposted,       \* history: pairs with more than one new_status call
    lastWriter,     \* history: account -> "startup" | "push" | "poll"
    snapWriter,     \* history: lastWriter when the iteration took its snapshot
    snapF,          \* history: lastF when the iteration took its snapshot
    lastF,          \* history: account -> feed of its last poll batch
    prevMark,       \* history: last_checkin when the process last stopped
    bootLen,        \* history: swarm id -> feed length at the last startup
    boots,          \* history: number of startups so far
    resp,           \* history: checkin id -> response its push delivery got
    calls,          \* history: new_status calls of the dispatch in progress
    file,           \* flags.friends_map and the file it names
    friends_map,    \* AppState.friends_map: swarm handle -> mastodon id
    checkin,        \* the checkin whose status text is being built
    shout_out,      \* get_shout(checkin, friends_map), once built
    country_out,    \* checkin.venue.location.to_string(), once built
    built,          \* whether shout_out and country_out are built
    tree,           \* db.user as sled holds it: account key -> stored bytes
    put,            \* history: account key -> User last inserted under it
    users_out,      \* the Result get_users returned, once listed
    listed          \* whether users_out holds the result of get_users

vars == <<proc, with_polling, user, swarm_mapping, feed, last_checkin, lock,
          phase, snap, task, todo, cur, batch, pos, dpc, ppc, pev, puser,
          pushLog, disp, lastDisp, posted, reposted, lastWriter, snapWriter, snapF,
          lastF, prevMark, bootLen, boots, resp, calls, file, friends_map, checkin,
          shout_out, country_out, built, tree, put, users_out, listed>>

storeVars == <<tree, put, users_out, listed>>
textVars == <<file, friends_map, checkin, shout_out, country_out, built>>
pollVars == <<phase, snap, task, todo, cur, batch, pos, dpc, snapWriter, snapF>>
pushVars == <<ppc, pev, puser>>
histVars == <<disp, lastDisp, posted, reposted, boots>>

EmptyMap == [x \in {} |-> x]
NoId == <<>>

Min(a, b) == IF a < b THEN a ELSE b

RECURSIVE Reverse(_)
Reverse(s) == IF s = <<>> THEN <<>> ELSE Reverse(Tail(s)) \o <<Head(s)>>

\* The origin user a destination account links to, the length its feed is
\* bounded by, and the kinds of check-in it holds: the second origin user
\* only makes public check-ins with an annotation.
Home(u) == IF u = "u1" THEN "s1" ELSE "s2"
FeedCap(s) == IF s = "s1" THEN MaxEvents ELSE MaxOther
FeedKinds(s) == IF s = "s1" THEN Kinds ELSE {"shout"}

\* ------------------------------------------------------------ swarm.rs

\* Option<T>: None, or Some(x) holding x.
None == <<>>
Some(x) == <<x>>

\* A String is a sequence of tokens: a word, one whitespace character " ",
\* a comma, or "@".

\* SwarmCheckin of the i-th checkin of swarm user s: a checkin with a shout
\* has the shout "x" and no companions.
SwarmCheckin(s, i) ==
    [id |-> <<s, i>>,
     private |-> feed[s][i] = "private",
     shout |-> IF feed[s][i] = "shout" THEN Some(<<"x">>) ELSE None,
     with |-> <<>>]

\* GET /users/self/checkins: one page, newest first.
get_checkins(token) ==
    LET n == Len(feed[token])
        m == Min(n, PageSize)
    IN [j \in 1..m |-> SwarmCheckin(token, n - j + 1)]

get_latest_checkins_unfiltered(token) == get_checkins(token)

get_latest_checkins(token) ==
    SelectSeq(get_checkins(token), LAMBDA c : ~c.private)

\* Ok(id) of the newest public checkin, NoId for the "no checkins found" error.
get_last_checkin(token) ==
    LET F == get_latest_checkins(token)
    IN IF F = <<>> THEN NoId ELSE F[1].id

\* SwarmLocation::to_string
to_string(loc) ==
    IF loc.city # None /\ loc.state # None
    THEN Some(loc.city[1] \o <<",", " ">> \o loc.state[1])
    ELSE IF loc.city = None /\ loc.state # None /\ loc.country # None
    THEN Some(loc.state[1] \o <<",", " ">> \o loc.country[1])
    ELSE IF loc.city = None /\ loc.state = None /\ loc.country # None
    THEN Some(loc.country[1])
    ELSE None

\* Vec<String>::join(sep)
RECURSIVE join(_, _)
join(ss, sep) ==
    IF ss = <<>> THEN <<>>
    ELSE IF Len(ss) = 1 THEN ss[1]
    ELSE ss[1] \o sep \o join(Tail(ss), sep)

ends_with(s, pat) ==
    /\ Len(pat) <= Len(s)
    /\ SubSeq(s, Len(s) - Len(pat) + 1, Len(s)) = pat

\* str::trim_end_matches: the pattern is removed from the end repeatedly.
RECURSIVE trim_end_matches(_, _)
trim_end_matches(s, pat) ==
    IF pat # <<>> /\ ends_with(s, pat)
    THEN trim_end_matches(SubSeq(s, 1, Len(s) - Len(pat)), pat)
    ELSE s

RECURSIVE trim_start(_)
trim_start(s) ==
    IF s # <<>> /\ Head(s) = " " THEN trim_start(Tail(s)) ELSE s

RECURSIVE trim_end(_)
trim_end(s) ==
    IF s # <<>> /\ s[Len(s)] = " " THEN trim_end(SubSeq(s, 1, Len(s) - 1)) ELSE s

\* str::trim
trim(s) == trim_end(trim_start(s))

\* "with " followed by the companions' first names joined by ", "
with_names(with) ==
    <<"with", " ">> \o join([i \in 1..Len(with) |-> <<with[i].first_name>>], <<",", " ">>)

\* The companions as the rebuilt shout names them.
mentions(with, fm) ==
    join([i \in 1..Len(with) |->
            IF with[i].handle \in DOMAIN fm
            THEN <<"@", fm[with[i].handle]>>
            ELSE <<with[i].first_name>>],
         <<",", " ">>)

get_shout_nocheck(c, fm) ==
    IF c.shout = None THEN None
    ELSE LET stripped == trim(trim_end_matches(c.shout[1], with_names(c.with)))
         IN IF stripped = <<>> THEN None
            ELSE IF c.with = <<>> THEN Some(stripped)
            ELSE Some(stripped \o <<" ", "with", " ">> \o mentions(c.with, fm))

\* get_shout(checkin, friends_map)
get_shout(c, fm) ==
    IF c.with = <<>> THEN c.shout
    ELSE IF c.shout = None THEN None
    ELSE LET stripped == trim(trim_end_matches(c.shout[1], with_names(c.with)))
         IN IF stripped = <<>> THEN None
            ELSE Some(stripped \o <<" ", "with", " ">> \o mentions(c.with, fm))

\* ------------------------------------------------------------ state.rs

RECURSIVE take_while_inclusive(_, _)
take_while_inclusive(F, W) ==
    IF F = <<>> THEN <<>>
    ELSE IF Head(F).id = W THEN <<Head(F)>>
    ELSE <<Head(F)>> \o take_while_inclusive(Tail(F), W)

filter_not(F, W) == SelectSeq(F, LAMBDA c : c.id # W)

\* checkins.into_iter().take_while(|c| c.id != last_checkin).collect()
RECURSIVE take_while(_, _)
take_while(F, W) ==
    IF F = <<>> \/ Head(F).id = W THEN <<>>
    ELSE <<Head(F)>> \o take_while(Tail(F), W)

\* checkins.last().unwrap().id of the reversed batch
batch_last(b) == b[Len(b)].id

\* last_checkin.insert(user_id, checkin_id) under the lock
insert(m, k, v) == (k :> v) @@ m

\* ------------------------------------------------------------ model.rs

\* Database::create_user: a record with no origin identity yet.
create_user == [swarm_id |-> "", swarm_access_token |-> ""]

\* The record get_swarm_callback stores for a user who authorised as s.
linked_user(s) == [swarm_id |-> s, swarm_access_token |-> s]

\* A String field of a stored User: up to MaxStr bytes.
Strings == UNION {[1..n -> {1}] : n \in 0..MaxStr}

\* struct User; mastodon stands for the destination credential.
StoredUsers ==
    [mastodon : Strings, swarm_id : Strings, swarm_access_token : Strings]

\* bincode of a String: its length, then its bytes.
serialize_string(s) == <<Len(s)>> \o s

\* bincode::serialize(&user): the fields in the order of the struct.
serialize(u) ==
    serialize_string(u.mastodon) \o serialize_string(u.swarm_id)
        \o serialize_string(u.swarm_access_token)

\* bincode reads one String from the front of b: the length, then as many
\* bytes; an error when b is shorter than that.
read_string(b) ==
    IF b = <<>> \/ Len(b) - 1 < b[1]
    THEN [ok |-> FALSE, val |-> <<>>, rest |-> <<>>]
    ELSE [ok |-> TRUE, val |-> SubSeq(b, 2, 1 + b[1]),
          rest |-> SubSeq(b, 2 + b[1], Len(b))]

deserialize_swapped(b) ==
    LET f1 == read_string(b)
        f2 == read_string(f1.rest)
        f3 == read_string(f2.rest)
    IN IF f1.ok /\ f2.ok /\ f3.ok
       THEN Some([mastodon |-> f1.val, swarm_id |-> f3.val,
                  swarm_access_token |-> f2.val])
       ELSE None

\* bincode::deserialize::<User>(b): Some(user), or None for an error.
deserialize(b) ==
    LET f1 == read_string(b)
        f2 == read_string(f1.rest)
        f3 == read_string(f2.rest)
    IN IF f1.ok /\ f2.ok /\ f3.ok
       THEN Some([mastodon |-> f1.val, swarm_id |-> f2.val,
                  swarm_access_token |-> f3.val])
       ELSE None

\* Database::get_users: the entries of the tree collected into a HashMap,
\* Some(map) for Ok, None as soon as one value does not deserialize.
get_users(tr) ==
    IF \E k \in DOMAIN tr : deserialize(tr[k]) = None THEN None
    ELSE Some([k \in DOMAIN tr |-> deserialize(tr[k])[1]])

\* What User::post_checkin does once get_checkin_details has returned:
\* "failed" (details error), "skipped" (no shout) or "post" (new_status called).
post_checkin_step_generic(c, fm, detailsOk) ==
    IF ~detailsOk THEN "failed" ELSE "post"

post_checkin_step(c, fm, detailsOk) ==
    IF ~detailsOk THEN "failed"
    ELSE IF get_shout(c, fm) = None THEN "skipped"
    ELSE "post"

\* ------------------------------------------------------------ histories

Dispatched(u, e) ==
    /\ disp' = disp \cup {<<u, e>>}
    /\ lastDisp' = [lastDisp EXCEPT ![u] = e]

NewStatus(u, e) ==
    /\ posted' = posted \cup {<<u, e>>}
    /\ reposted' = IF <<u, e>> \in posted THEN reposted \cup {<<u, e>>} ELSE reposted

\* ------------------------------------------------------------ initial state

\* No friends-map file is given and no status text is being built.
NoLocation == [city |-> None, state |-> None, country |-> None]
NoFile == [flag |-> FALSE, readable |-> FALSE, lines |-> <<>>]

NoText ==
    /\ file = NoFile
    /\ friends_map = EmptyMap
    /\ checkin = [shout |-> None, with |-> <<>>, location |-> NoLocation]
    /\ shout_out = None
    /\ country_out = None
    /\ built = FALSE

\* The store specification's tree is empty and nothing was listed.
NoStore ==
    /\ tree = EmptyMap
    /\ put = EmptyMap
    /\ users_out = None
    /\ listed = FALSE

Init ==
    /\ proc = "down"
    /\ with_polling = FALSE
    /\ \E D \in SUBSET Users, L \in SUBSET Users :
         /\ L \subseteq D
         /\ user = [u \in D |-> IF u \in L THEN linked_user(Home(u)) ELSE create_user]
         /\ swarm_mapping = [s \in {Home(u) : u \in L} |-> CHOOSE u \in L : Home(u) = s]
    /\ feed = [s \in SwarmIds |-> <<>>]
    /\ last_checkin = EmptyMap
    /\ lock = "free"
    /\ phase = "sleep"
    /\ snap = EmptyMap
    /\ task = EmptyMap
    /\ todo = {}
    /\ cur = "none"
    /\ batch = <<>>
    /\ pos = 0
    /\ dpc = "none"
    /\ ppc = "idle"
    /\ pev = NoId
    /\ puser = "none"
    /\ pushLog = EmptyMap
    /\ disp = {}
    /\ lastDisp = [u \in Users |-> NoId]
    /\ posted = {}
    /\ reposted = {}
    /\ lastWriter = EmptyMap
    /\ snapWriter = EmptyMap
    /\ snapF = EmptyMap
    /\ lastF = EmptyMap
    /\ prevMark = EmptyMap
    /\ bootLen = [s \in SwarmIds |-> 0]
    /\ boots = 0
    /\ resp = EmptyMap
    /\ calls = [push |-> 0, poll |-> 0]
    /\ NoText
    /\ NoStore

\* ------------------------------------------------------------ environment

\* A swarm user checks in (whether or not the relay is running).
NewEvent(s, k, cap) ==
    /\ Len(feed[s]) < cap
    /\ feed' = [feed EXCEPT ![s] = Append(@, k)]
    /\ UNCHANGED <<proc, with_polling, user, swarm_mapping, last_checkin, lock,
                   pollVars, pushVars, pushLog, histVars, lastWriter, lastF,
                   prevMark, bootLen, resp, calls, textVars, storeVars>>

\* The process stops; everything held in memory is gone.
Shutdown ==
    /\ proc = "running"
    /\ proc' = "down"
    /\ prevMark' = last_checkin
    /\ with_polling' = FALSE
    /\ last_checkin' = EmptyMap
    /\ lock' = "free"
    /\ phase' = "sleep"
    /\ snap' = EmptyMap
    /\ task' = EmptyMap
    /\ todo' = {}
    /\ cur' = "none"
    /\ batch' = <<>>
    /\ pos' = 0
    /\ dpc' = "none"
    /\ ppc' = "idle"
    /\ pev' = NoId
    /\ puser' = "none"
    /\ lastWriter' = EmptyMap
    /\ snapWriter' = EmptyMap
    /\ snapF' = EmptyMap
    /\ lastF' = EmptyMap
    /\ calls' = [push |-> 0, poll |-> 0]
    /\ UNCHANGED <<user, swarm_mapping, feed, pushLog, histVars, bootLen, resp,
                   textVars, storeVars>>

\* ------------------------------------------------------------ startup

\* A line of the file is a sequence of pieces of text; the piece "=" is the
\* character the lines are split at. The String of a sequence of pieces:
RECURSIVE concat(_)
concat(ps) == IF ps = <<>> THEN "" ELSE Head(ps) \o concat(Tail(ps))

\* str::split_once('='): the text before and after the first '=', if any.
split_once(line) ==
    LET P == {p \in 1..Len(line) : line[p] = "="}
    IN IF P = {} THEN None
       ELSE LET p == CHOOSE q \in P : \A r \in P : q <= r
            IN Some(<<concat(SubSeq(line, 1, p - 1)),
                      concat(SubSeq(line, p + 1, Len(line)))>>)

RECURSIVE read_friends_map_skip(_)
read_friends_map_skip(f) ==
    IF ~f.readable THEN None
    ELSE IF f.lines = <<>> THEN Some(EmptyMap)
    ELSE LET n == Len(f.lines)
             rest == read_friends_map_skip([f EXCEPT !.lines = SubSeq(f.lines, 1, n - 1)])
             kv == split_once(f.lines[n])
         IN IF kv = None THEN rest
            ELSE Some(insert(rest[1], kv[1][1], kv[1][2]))

\* read_friends_map: Err (None) when the file cannot be read or a line has no
\* '='; otherwise the map of the lines, a later line replacing an earlier one
\* of the same key.
RECURSIVE read_friends_map(_)
read_friends_map(f) ==
    IF ~f.readable THEN None
    ELSE IF f.lines = <<>> THEN Some(EmptyMap)
    ELSE LET n == Len(f.lines)
             rest == read_friends_map([f EXCEPT !.lines = SubSeq(f.lines, 1, n - 1)])
             kv == split_once(f.lines[n])
         IN IF rest = None \/ kv = None THEN None
            ELSE Some(insert(rest[1], kv[1][1], kv[1][2]))

\* AppState::from_flags, lines 75-85: the map of the file, or an empty map
\* when no file is given or read_friends_map failed.
load_friends_map(f) ==
    IF f.flag
    THEN LET r == read_friends_map(f) IN IF r = None THEN EmptyMap ELSE r[1]
    ELSE EmptyMap

\* AppState::fetch_last_checkin: one get_last_checkin per directory entry;
\* the collected Result is Err as soon as one of them is.
fetch_last_checkin(httpOk) ==
    [u \in DOMAIN user |->
        IF httpOk /\ user[u].swarm_access_token \in SwarmIds
        THEN get_last_checkin(user[u].swarm_access_token)
        ELSE NoId]

\* AppState::from_flags, the store having been opened.
from_flags(polling, httpOk) ==
    /\ proc \in {"down", "panicked"}
    /\ boots' = boots + 1
    /\ (~httpOk) => (polling /\ DOMAIN user # {})
    /\ LET res == fetch_last_checkin(httpOk)
       IN IF polling /\ \E u \in DOMAIN res : res[u] = NoId
          THEN /\ proc' = "panicked"
               /\ UNCHANGED <<with_polling, last_checkin, lastWriter, bootLen,
                              friends_map>>
          ELSE /\ proc' = "running"
               /\ friends_map' = load_friends_map(file)
               /\ with_polling' = polling
               /\ last_checkin' = IF polling THEN res ELSE EmptyMap
               /\ lastWriter' = IF polling THEN [u \in DOMAIN res |-> "startup"]
                                ELSE EmptyMap
               /\ bootLen' = [s \in SwarmIds |-> Len(feed[s])]
    /\ UNCHANGED <<user, swarm_mapping, feed, lock, pollVars, pushVars, pushLog,
                   disp, lastDisp, posted, reposted, lastF, prevMark, resp, calls,
                   file, checkin, shout_out, country_out, built, storeVars>>

\* ------------------------------------------------------------ routes.rs

\* get_mastodon_callback: the destination account is linked first.
get_mastodon_callback(u) ==
    /\ proc = "running"
    /\ u \notin DOMAIN user
    /\ user' = insert(user, u, create_user)
    /\ UNCHANGED <<proc, with_polling, swarm_mapping, feed, last_checkin, lock,
                   pollVars, pushVars, pushLog, histVars, lastWriter, lastF,
                   prevMark, bootLen, resp, calls, textVars, storeVars>>

\* get_swarm_callback: the origin account is linked to an existing user.
get_swarm_callback(u, s) ==
    /\ proc = "running"
    /\ u \in DOMAIN user
    /\ user' = insert(user, u, linked_user(s))
    /\ swarm_mapping' = insert(swarm_mapping, s, u)
    /\ UNCHANGED <<proc, with_polling, feed, last_checkin, lock,
                   pollVars, pushVars, pushLog, histVars, lastWriter, lastF,
                   prevMark, bootLen, resp, calls, textVars, storeVars>>

update_last_checkin_ifabsent(u, e, who) ==
    /\ with_polling => lock = "free"
    /\ last_checkin' = IF with_polling THEN last_checkin @@ (u :> e) ELSE last_checkin
    /\ lastWriter' = IF with_polling THEN insert(lastWriter, u, who) ELSE lastWriter

\* AppState::update_last_checkin
update_last_checkin(u, e, who) ==
    /\ with_polling => lock = "free"
    /\ last_checkin' = IF with_polling THEN insert(last_checkin, u, e) ELSE last_checkin
    /\ lastWriter' = IF with_polling THEN insert(lastWriter, u, who) ELSE lastWriter

\* The path post_swarm_push takes up to the call of post_checkin; author is
\* the checkin's user field ("" when absent).
push_outcome_dedup(s, i, secretOk, parseOk, hasUser, dbOk) ==
    IF ~secretOk THEN "rejected"
    ELSE IF ~parseOk THEN "rejected"
    ELSE IF SwarmCheckin(s, i).private THEN "private"
    ELSE IF ~hasUser THEN "rejected"
    ELSE IF ~dbOk \/ s \notin DOMAIN swarm_mapping THEN "rejected"
    ELSE IF swarm_mapping[s] \notin DOMAIN user THEN "rejected"
    ELSE IF /\ swarm_mapping[s] \in DOMAIN last_checkin
            /\ last_checkin[swarm_mapping[s]][1] = s
            /\ last_checkin[swarm_mapping[s]][2] >= i THEN "rejected"
    ELSE "dispatched"

push_outcome_nosecret(s, i, secretOk, parseOk, hasUser, dbOk) ==
    IF ~parseOk THEN "rejected"
    ELSE IF SwarmCheckin(s, i).private THEN "private"
    ELSE IF ~hasUser THEN "rejected"
    ELSE IF ~dbOk \/ s \notin DOMAIN swarm_mapping THEN "rejected"
    ELSE IF swarm_mapping[s] \notin DOMAIN user THEN "rejected"
    ELSE "dispatched"

push_outcome(s, i, secretOk, parseOk, hasUser, dbOk) ==
    IF ~secretOk THEN "rejected"
    ELSE IF ~parseOk THEN "rejected"
    ELSE IF SwarmCheckin(s, i).private THEN "private"
    ELSE IF ~hasUser THEN "rejected"
    ELSE IF ~dbOk \/ s \notin DOMAIN swarm_mapping THEN "rejected"
    ELSE IF swarm_mapping[s] \notin DOMAIN user THEN "rejected"
    ELSE "dispatched"

\* The handler's Result for the place it returns from: an early return, or
\* the end of the handler after post_checkin returned in state pc.
push_response_strict(pc) ==
    IF pc \in {"rejected", "failed", "postfailed"} THEN "err" ELSE "ok"

push_response(pc) == "ok"

\* The places post_checkin returns from.
Returned == {"failed", "skipped", "posted", "postfailed"}

\* post_swarm_push up to the call of post_checkin. Each checkin is delivered
\* at most once.
PushReceive(s, i, secretOk, parseOk, hasUser, dbOk) ==
    /\ proc = "running"
    /\ ppc = "idle"
    /\ i \in 1..Len(feed[s])
    /\ <<s, i>> \notin DOMAIN pushLog
    /\ LET outcome == push_outcome(s, i, secretOk, parseOk, hasUser, dbOk)
       IN /\ pushLog' = insert(pushLog, <<s, i>>, outcome)
          /\ IF outcome = "dispatched"
             THEN /\ ppc' = "details"
                  /\ pev' = <<s, i>>
                  /\ puser' = swarm_mapping[s]
                  /\ Dispatched(swarm_mapping[s], <<s, i>>)
                  /\ UNCHANGED resp
             ELSE /\ resp' = insert(resp, <<s, i>>, push_response(outcome))
                  /\ UNCHANGED <<ppc, pev, puser, disp, lastDisp>>
    /\ UNCHANGED <<proc, with_polling, user, swarm_mapping, feed, last_checkin,
                   lock, pollVars, posted, reposted, lastWriter, lastF,
                   prevMark, bootLen, boots, calls, textVars, storeVars>>

\* get_checkin_details returns inside the push handler's post_checkin: the
\* early returns of post_checkin, or the call of new_status.
PushDetails(detailsOk) ==
    /\ proc = "running"
    /\ ppc = "details"
    /\ LET r == post_checkin_step(SwarmCheckin(pev[1], pev[2]), friends_map, detailsOk)
       IN IF r = "post"
          THEN /\ ppc' = "post"
               /\ NewStatus(puser, pev)
               /\ calls' = [calls EXCEPT !.push = @ + 1]
          ELSE /\ ppc' = r
               /\ UNCHANGED <<posted, reposted, calls>>
    /\ UNCHANGED <<proc, with_polling, user, swarm_mapping, feed, last_checkin,
                   lock, pollVars, pev, puser, pushLog, disp, lastDisp,
                   lastWriter, lastF, prevMark, bootLen, boots, resp, textVars, storeVars>>

PushPosted_retry(postOk) ==
    /\ proc = "running"
    /\ ppc = "post"
    /\ IF postOk \/ calls.push > 1
       THEN /\ ppc' = IF postOk THEN "posted" ELSE "postfailed"
            /\ UNCHANGED <<posted, reposted, calls>>
       ELSE /\ ppc' = "post"
            /\ NewStatus(puser, pev)
            /\ calls' = [calls EXCEPT !.push = @ + 1]
    /\ UNCHANGED <<proc, with_polling, user, swarm_mapping, feed, last_checkin,
                   lock, pollVars, pev, puser, pushLog, disp, lastDisp, boots,
                   lastWriter, lastF, prevMark, bootLen, resp, textVars, storeVars>>

\* new_status returns; its error is only logged.
PushPosted(postOk) ==
    /\ proc = "running"
    /\ ppc = "post"
    /\ ppc' = IF postOk THEN "posted" ELSE "postfailed"
    /\ UNCHANGED <<proc, with_polling, user, swarm_mapping, feed, last_checkin,
                   lock, pollVars, pev, puser, pushLog, histVars,
                   lastWriter, lastF, prevMark, bootLen, resp, calls, textVars, storeVars>>

\* post_checkin has returned Ok(()):
\* state.update_last_checkin(&user_id, &checkin.id), then Ok(()).
PushUpdate ==
    /\ proc = "running"
    /\ ppc \in Returned
    /\ update_last_checkin(puser, pev, "push")
    /\ resp' = insert(resp, pev, push_response(ppc))
    /\ calls' = [calls EXCEPT !.push = 0]
    /\ ppc' = "idle"
    /\ pev' = NoId
    /\ puser' = "none"
    /\ UNCHANGED <<proc, with_polling, user, swarm_mapping, feed, lock,
                   pollVars, pushLog, histVars, lastF, prevMark, bootLen,
                   textVars, storeVars>>

\* ------------------------------------------------------------ poll loop

\* The result of one fetch task of the iteration (state.rs 140-158).
fetch_task(u, W, dbOk, httpOk) ==
    IF dbOk /\ u \in DOMAIN user /\ httpOk /\ user[u].swarm_access_token \in SwarmIds
    THEN LET F == get_latest_checkins(user[u].swarm_access_token)
         IN [st |-> "ok", F |-> F, sel |-> take_while(F, W)]
    ELSE [st |-> "err", F |-> <<>>, sel |-> <<>>]

PollSnapshot_unguarded ==
    /\ proc = "running"
    /\ phase = "sleep"
    /\ lock = "free"
    /\ lock' = "poll"
    /\ phase' = "fetching"
    /\ snap' = last_checkin
    /\ snapWriter' = lastWriter
    /\ snapF' = lastF
    /\ task' = [u \in DOMAIN last_checkin |-> [st |-> "inflight", F |-> <<>>, sel |-> <<>>]]
    /\ UNCHANGED <<proc, with_polling, user, swarm_mapping, feed, last_checkin,
                   todo, cur, batch, pos, dpc, pushVars, pushLog, histVars,
                   lastWriter, lastF, prevMark, bootLen, resp, calls, textVars, storeVars>>

\* The sleep ends: the map is locked and one fetch task per entry is spawned.
\* The guard is a temporary of the statement that ends at line 165.
PollSnapshot ==
    /\ proc = "running"
    /\ with_polling
    /\ phase = "sleep"
    /\ lock = "free"
    /\ lock' = "poll"
    /\ phase' = "fetching"
    /\ snap' = last_checkin
    /\ snapWriter' = lastWriter
    /\ snapF' = lastF
    /\ task' = [u \in DOMAIN last_checkin |-> [st |-> "inflight", F |-> <<>>, sel |-> <<>>]]
    /\ UNCHANGED <<proc, with_polling, user, swarm_mapping, feed, last_checkin,
                   todo, cur, batch, pos, dpc, pushVars, pushLog, histVars,
                   lastWriter, lastF, prevMark, bootLen, resp, calls, textVars, storeVars>>

\* One fetch task finishes.
FetchReturn(u, dbOk, httpOk) ==
    /\ proc = "running"
    /\ phase = "fetching"
    /\ u \in DOMAIN task
    /\ task[u].st = "inflight"
    /\ task' = [task EXCEPT ![u] = fetch_task(u, snap[u], dbOk, httpOk)]
    /\ UNCHANGED <<proc, with_polling, user, swarm_mapping, feed, last_checkin,
                   lock, phase, snap, todo, cur, batch, pos, dpc, snapWriter, snapF,
                   pushVars, pushLog, histVars, lastWriter, lastF, prevMark,
                   bootLen, resp, calls, textVars, storeVars>>

PollJoin_early ==
    /\ proc = "running"
    /\ phase = "fetching"
    /\ \E u \in DOMAIN task : task[u].st # "inflight"
    /\ lock' = "free"
    /\ IF \E u \in DOMAIN task : task[u].st = "err"
       THEN /\ phase' = "sleep"
            /\ task' = EmptyMap
            /\ snap' = EmptyMap
            /\ snapWriter' = EmptyMap
            /\ snapF' = EmptyMap
            /\ todo' = {}
       ELSE /\ phase' = "dispatching"
            /\ todo' = DOMAIN task
            /\ UNCHANGED <<task, snap, snapWriter, snapF>>
    /\ UNCHANGED <<proc, with_polling, user, swarm_mapping, feed, last_checkin,
                   cur, batch, pos, dpc, pushVars, pushLog, histVars,
                   lastWriter, lastF, prevMark, bootLen, resp, calls, textVars,
                   storeVars>>

PollJoin_keeplock ==
    /\ proc = "running"
    /\ phase = "fetching"
    /\ \A u \in DOMAIN task : task[u].st # "inflight"
    /\ IF \E u \in DOMAIN task : task[u].st = "err"
       THEN /\ phase' = "sleep"
            /\ lock' = "free"
            /\ task' = EmptyMap
            /\ snap' = EmptyMap
            /\ snapWriter' = EmptyMap
            /\ snapF' = EmptyMap
            /\ todo' = {}
       ELSE /\ phase' = "dispatching"
            /\ todo' = DOMAIN task
            /\ UNCHANGED <<lock, task, snap, snapWriter, snapF>>
    /\ UNCHANGED <<proc, with_polling, user, swarm_mapping, feed, last_checkin,
                   cur, batch, pos, dpc, pushVars, pushLog, histVars,
                   lastWriter, lastF, prevMark, bootLen, resp, calls, textVars,
                   storeVars>>

PollJoin_partial ==
    /\ proc = "running"
    /\ phase = "fetching"
    /\ \A u \in DOMAIN task : task[u].st # "inflight"
    /\ lock' = "free"
    /\ phase' = "dispatching"
    /\ todo' = {u \in DOMAIN task : task[u].st = "ok"}
    /\ UNCHANGED <<task, snap, snapWriter, snapF>>
    /\ UNCHANGED <<proc, with_polling, user, swarm_mapping, feed, last_checkin,
                   cur, batch, pos, dpc, pushVars, pushLog, histVars,
                   lastWriter, lastF, prevMark, bootLen, resp, calls, textVars, storeVars>>

\* join_all returns, the results are collected into one Result and the
\* statement ends (the guard is dropped); on Err the iteration is over.
PollJoin ==
    /\ proc = "running"
    /\ phase = "fetching"
    /\ \A u \in DOMAIN task : task[u].st # "inflight"
    /\ lock' = "free"
    /\ IF \E u \in DOMAIN task : task[u].st = "err"
       THEN /\ phase' = "sleep"
            /\ task' = EmptyMap
            /\ snap' = EmptyMap
            /\ snapWriter' = EmptyMap
            /\ snapF' = EmptyMap
            /\ todo' = {}
       ELSE /\ phase' = "dispatching"
            /\ todo' = DOMAIN task
            /\ UNCHANGED <<task, snap, snapWriter, snapF>>
    /\ UNCHANGED <<proc, with_polling, user, swarm_mapping, feed, last_checkin,
                   cur, batch, pos, dpc, pushVars, pushLog, histVars,
                   lastWriter, lastF, prevMark, bootLen, resp, calls, textVars, storeVars>>

PollNext_break(u, dbOk) ==
    /\ proc = "running"
    /\ phase = "dispatching"
    /\ cur = "none"
    /\ u \in todo
    /\ (~dbOk) => task[u].sel # <<>>
    /\ IF task[u].sel = <<>> \/ ~dbOk \/ u \notin DOMAIN user
       THEN /\ todo' = {}
            /\ UNCHANGED <<cur, batch, pos, dpc, disp, lastDisp>>
       ELSE /\ todo' = todo \ {u}
            /\ cur' = u
            /\ batch' = Reverse(task[u].sel)
            /\ pos' = 1
            /\ dpc' = "details"
            /\ Dispatched(u, batch'[1].id)
    /\ UNCHANGED <<proc, with_polling, user, swarm_mapping, feed, last_checkin,
                   lock, phase, snap, task, snapWriter, snapF, pushVars, pushLog,
                   posted, reposted, lastWriter, lastF, prevMark, bootLen, boots,
                   resp, calls, textVars, storeVars>>

PollNext_live(u, dbOk) ==
    /\ proc = "running"
    /\ phase = "dispatching"
    /\ cur = "none"
    /\ u \in todo
    /\ todo' = todo \ {u}
    /\ (~dbOk) => task[u].sel # <<>>
    /\ LET sel == IF u \in DOMAIN last_checkin
                  THEN take_while(task[u].F, last_checkin[u]) ELSE task[u].sel
       IN IF sel = <<>> \/ ~dbOk \/ u \notin DOMAIN user
          THEN UNCHANGED <<cur, batch, pos, dpc, disp, lastDisp>>
          ELSE /\ cur' = u
               /\ batch' = Reverse(sel)
               /\ pos' = 1
               /\ dpc' = "details"
               /\ Dispatched(u, batch'[1].id)
    /\ UNCHANGED <<proc, with_polling, user, swarm_mapping, feed, last_checkin,
                   lock, phase, snap, task, snapWriter, snapF, pushVars, pushLog,
                   posted, reposted, lastWriter, lastF, prevMark, bootLen, boots,
                   resp, calls, textVars, storeVars>>

PollNext_noreverse(u, dbOk) ==
    /\ proc = "running"
    /\ phase = "dispatching"
    /\ cur = "none"
    /\ u \in todo
    /\ todo' = todo \ {u}
    /\ (~dbOk) => task[u].sel # <<>>
    /\ IF task[u].sel = <<>> \/ ~dbOk \/ u \notin DOMAIN user
       THEN UNCHANGED <<cur, batch, pos, dpc, disp, lastDisp>>
       ELSE /\ cur' = u
            /\ batch' = task[u].sel
            /\ pos' = 1
            /\ dpc' = "details"
            /\ Dispatched(u, batch'[1].id)
    /\ UNCHANGED <<proc, with_polling, user, swarm_mapping, feed, last_checkin,
                   lock, phase, snap, task, snapWriter, snapF, pushVars, pushLog,
                   posted, reposted, lastWriter, lastF, prevMark, bootLen, boots,
                   resp, calls, textVars, storeVars>>

\* The for loop takes the next entry of the HashMap (any order): an empty
\* list or a failed get_user is skipped, otherwise the list is reversed and
\* post_checkin is called for its first checkin.
PollNext(u, dbOk) ==
    /\ proc = "running"
    /\ phase = "dispatching"
    /\ cur = "none"
    /\ u \in todo
    /\ todo' = todo \ {u}
    /\ (~dbOk) => task[u].sel # <<>>
    /\ IF task[u].sel = <<>> \/ ~dbOk \/ u \notin DOMAIN user
       THEN UNCHANGED <<cur, batch, pos, dpc, disp, lastDisp>>
       ELSE /\ cur' = u
            /\ batch' = Reverse(task[u].sel)
            /\ pos' = 1
            /\ dpc' = "details"
            /\ Dispatched(u, batch'[1].id)
    /\ UNCHANGED <<proc, with_polling, user, swarm_mapping, feed, last_checkin,
                   lock, phase, snap, task, snapWriter, snapF, pushVars, pushLog,
                   posted, reposted, lastWriter, lastF, prevMark, bootLen, boots,
                   resp, calls, textVars, storeVars>>

\* The for loop is over: back to the sleep at the top of the loop.
PollDone ==
    /\ proc = "running"
    /\ phase = "dispatching"
    /\ cur = "none"
    /\ todo = {}
    /\ phase' = "sleep"
    /\ task' = EmptyMap
    /\ snap' = EmptyMap
    /\ snapWriter' = EmptyMap
    /\ snapF' = EmptyMap
    /\ UNCHANGED <<proc, with_polling, user, swarm_mapping, feed, last_checkin,
                   lock, todo, cur, batch, pos, dpc, pushVars, pushLog,
                   histVars, lastWriter, lastF, prevMark, bootLen, resp, calls,
                   textVars, storeVars>>

\* post_checkin has returned for batch[pos]: the next checkin of the batch,
\* or the watermark write after the last one.
NextInBatch ==
    IF pos < Len(batch)
    THEN /\ pos' = pos + 1
         /\ dpc' = "details"
         /\ Dispatched(cur, batch[pos + 1].id)
    ELSE /\ dpc' = "update"
         /\ UNCHANGED <<pos, disp, lastDisp>>

\* get_checkin_details returns inside the poll task's post_checkin: the
\* early returns of post_checkin, or the call of new_status.
PollDetails(detailsOk) ==
    /\ proc = "running"
    /\ phase = "dispatching"
    /\ dpc = "details"
    /\ LET r == post_checkin_step(batch[pos], friends_map, detailsOk)
       IN IF r = "post"
          THEN /\ dpc' = "post"
               /\ NewStatus(cur, batch[pos].id)
               /\ calls' = [calls EXCEPT !.poll = @ + 1]
          ELSE /\ dpc' = r
               /\ UNCHANGED <<posted, reposted, calls>>
    /\ UNCHANGED <<proc, with_polling, user, swarm_mapping, feed, last_checkin,
                   lock, phase, snap, task, todo, cur, batch, pos, snapWriter,
                   snapF, pushVars, pushLog, disp, lastDisp, lastWriter, lastF,
                   prevMark, bootLen, boots, resp, textVars, storeVars>>

\* new_status returns inside the poll task; its error is only logged.
PollPosted(postOk) ==
    /\ proc = "running"
    /\ phase = "dispatching"
    /\ dpc = "post"
    /\ dpc' = IF postOk THEN "posted" ELSE "postfailed"
    /\ UNCHANGED <<proc, with_polling, user, swarm_mapping, feed, last_checkin,
                   lock, phase, snap, task, todo, cur, batch, pos, snapWriter,
                   snapF, pushVars, pushLog, histVars, lastWriter, lastF,
                   prevMark, bootLen, resp, calls, textVars, storeVars>>

PollReturn_abort ==
    /\ proc = "running"
    /\ phase = "dispatching"
    /\ dpc \in Returned
    /\ IF dpc = "skipped"
       THEN /\ dpc' = "update"
            /\ pos' = Len(batch)
            /\ UNCHANGED <<disp, lastDisp>>
       ELSE NextInBatch
    /\ calls' = [calls EXCEPT !.poll = 0]
    /\ UNCHANGED <<proc, with_polling, user, swarm_mapping, feed, last_checkin,
                   lock, phase, snap, task, todo, cur, batch, snapWriter, snapF,
                   pushVars, pushLog, posted, reposted, lastWriter, lastF,
                   prevMark, bootLen, boots, resp, textVars, storeVars>>

\* post_checkin has returned Ok(()) to the for loop over the batch.
PollReturn ==
    /\ proc = "running"
    /\ phase = "dispatching"
    /\ dpc \in Returned
    /\ NextInBatch
    /\ calls' = [calls EXCEPT !.poll = 0]
    /\ UNCHANGED <<proc, with_polling, user, swarm_mapping, feed, last_checkin,
                   lock, phase, snap, task, todo, cur, batch, snapWriter, snapF,
                   pushVars, pushLog, posted, reposted, lastWriter, lastF,
                   prevMark, bootLen, boots, resp, textVars, storeVars>>

\* state.update_last_checkin(&id, &checkins.last().unwrap().id)
PollUpdate ==
    /\ proc = "running"
    /\ phase = "dispatching"
    /\ dpc = "update"
    /\ update_last_checkin(cur, batch_last(batch), "poll")
    /\ lastF' = insert(lastF, cur, task[cur].F)
    /\ cur' = "none"
    /\ batch' = <<>>
    /\ pos' = 0
    /\ dpc' = "none"
    /\ UNCHANGED <<proc, with_polling, user, swarm_mapping, feed, lock, phase,
                   snap, task, todo, snapWriter, snapF, pushVars, pushLog, histVars,
                   prevMark, bootLen, resp, calls, textVars, storeVars>>

\* ------------------------------------------------------------ specification

Next ==
    \/ \E s \in SwarmIds : \E k \in FeedKinds(s) : NewEvent(s, k, FeedCap(s))
    \/ \E polling \in BOOLEAN, httpOk \in BOOLEAN :
            boots = 0 /\ from_flags(polling, httpOk)
    \/ \E u \in Users : get_mastodon_callback(u)
    \/ \E u \in Users : get_swarm_callback(u, Home(u))
    \/ \E s \in SwarmIds, i \in 1..MaxEvents, secretOk \in BOOLEAN, parseOk \in BOOLEAN,
          hasUser \in BOOLEAN, dbOk \in BOOLEAN :
            PushReceive(s, i, secretOk, parseOk, hasUser, dbOk)
    \/ \E detailsOk \in BOOLEAN : PushDetails(detailsOk)
    \/ \E postOk \in BOOLEAN : PushPosted(postOk)
    \/ PushUpdate
    \/ PollSnapshot
    \/ \E u \in Users, dbOk \in BOOLEAN, httpOk \in BOOLEAN : FetchReturn(u, dbOk, httpOk)
    \/ PollJoin
    \/ \E u \in Users, dbOk \in BOOLEAN : PollNext(u, dbOk)
    \/ PollDone
    \/ \E detailsOk \in BOOLEAN : PollDetails(detailsOk)
    \/ \E postOk \in BOOLEAN : PollPosted(postOk)
    \/ PollReturn
    \/ PollUpdate

Spec == Init /\ [][Next]_vars

\* The relay with one account only: every action of Next, for account u1 and
\* its origin user.
InitOne == Init /\ DOMAIN user \subseteq {"u1"}

NextOne ==
    \/ \E k \in Kinds : NewEvent("s1", k, MaxEvents)
    \/ \E polling \in BOOLEAN, httpOk \in BOOLEAN :
            boots = 0 /\ from_flags(polling, httpOk)
    \/ get_mastodon_callback("u1")
    \/ get_swarm_callback("u1", "s1")
    \/ \E i \in 1..MaxEvents, secretOk \in BOOLEAN, parseOk \in BOOLEAN,
          hasUser \in BOOLEAN, dbOk \in BOOLEAN :
            PushReceive("s1", i, secretOk, parseOk, hasUser, dbOk)
    \/ \E detailsOk \in BOOLEAN : PushDetails(detailsOk)
    \/ \E postOk \in BOOLEAN : PushPosted(postOk)
    \/ PushUpdate
    \/ PollSnapshot
    \/ \E dbOk \in BOOLEAN, httpOk \in BOOLEAN : FetchReturn("u1", dbOk, httpOk)
    \/ PollJoin
    \/ \E dbOk \in BOOLEAN : PollNext("u1", dbOk)
    \/ PollDone
    \/ \E detailsOk \in BOOLEAN : PollDetails(detailsOk)
    \/ \E postOk \in BOOLEAN : PollPosted(postOk)
    \/ PollReturn
    \/ PollUpdate

SpecOne == InitOne /\ [][NextOne]_vars

\* The relay with one linked account whose checkins all have a shout, started
\* with polling: the push handler and the poll task share the watermark map.
\* Every call a task awaits returns and the
\* runtime keeps scheduling the tasks: the poll task's steps as in
\* PollFairness; the end of the sleep; and the push handler's watermark write,
\* which waits in the queue of the tokio Mutex and is served in turn however
\* often the poll task takes the lock meanwhile.
LockFairness ==
    /\ WF_vars(\E dbOk \in BOOLEAN, httpOk \in BOOLEAN : FetchReturn("u1", dbOk, httpOk))
    /\ WF_vars(PollJoin)
    /\ WF_vars(\E dbOk \in BOOLEAN : PollNext("u1", dbOk))
    /\ WF_vars(PollDone)
    /\ WF_vars(\E detailsOk \in BOOLEAN : PollDetails(detailsOk))
    /\ WF_vars(\E postOk \in BOOLEAN : PollPosted(postOk))
    /\ WF_vars(PollReturn)
    /\ WF_vars(PollUpdate)
    /\ WF_vars(PollSnapshot)
    /\ SF_vars(PushUpdate)

InitLock == InitOne /\ "u1" \in DOMAIN user /\ user["u1"].swarm_id # ""

NextLock ==
    \/ NewEvent("s1", "shout", MaxEvents)
    \/ boots = 0 /\ from_flags(TRUE, TRUE)
    \/ \E i \in 1..MaxEvents : PushReceive("s1", i, TRUE, TRUE, TRUE, TRUE)
    \/ \E detailsOk \in BOOLEAN : PushDetails(detailsOk)
    \/ PushPosted(TRUE)
    \/ PushUpdate
    \/ PollSnapshot
    \/ \E httpOk \in BOOLEAN : FetchReturn("u1", TRUE, httpOk)
    \/ PollJoin
    \/ PollNext("u1", TRUE)
    \/ PollDone
    \/ \E detailsOk \in BOOLEAN : PollDetails(detailsOk)
    \/ PollPosted(TRUE)
    \/ PollReturn
    \/ PollUpdate

SpecLock == InitLock /\ [][NextLock]_vars /\ LockFairness

\* The poll loop on two linked accounts whose checkins are all public, no
\* push being delivered: every call the poll task awaits returns and the
\* runtime keeps scheduling the task.
InitPoll == Init /\ \A u \in Users : u \in DOMAIN user /\ user[u].swarm_id # ""

NextPoll ==
    \/ \E s \in SwarmIds, k \in Kinds \ {"private"} : NewEvent(s, k, MaxEvents)
    \/ \E polling \in BOOLEAN, httpOk \in BOOLEAN :
            boots = 0 /\ from_flags(polling, httpOk)
    \/ PollSnapshot
    \/ \E u \in Users, dbOk \in BOOLEAN, httpOk \in BOOLEAN : FetchReturn(u, dbOk, httpOk)
    \/ PollJoin
    \/ \E u \in Users, dbOk \in BOOLEAN : PollNext(u, dbOk)
    \/ PollDone
    \/ \E detailsOk \in BOOLEAN : PollDetails(detailsOk)
    \/ \E postOk \in BOOLEAN : PollPosted(postOk)
    \/ PollReturn
    \/ PollUpdate

PollFairness ==
    /\ WF_vars(\E u \in Users, dbOk \in BOOLEAN, httpOk \in BOOLEAN : FetchReturn(u, dbOk, httpOk))
    /\ WF_vars(PollJoin)
    /\ WF_vars(\E u \in Users, dbOk \in BOOLEAN : PollNext(u, dbOk))
    /\ WF_vars(PollDone)
    /\ WF_vars(\E detailsOk \in BOOLEAN : PollDetails(detailsOk))
    /\ WF_vars(\E postOk \in BOOLEAN : PollPosted(postOk))
    /\ WF_vars(PollReturn)
    /\ WF_vars(PollUpdate)

SpecPoll == InitPoll /\ [][NextPoll]_vars /\ PollFairness

\* Two linked accounts whose checkins are all public and have a shout, the
\* process started with polling and every external call succeeding: the push
\* handler and the poll loop write the watermarks of both accounts.
NextTwo ==
    \/ \E s \in SwarmIds : NewEvent(s, "shout", FeedCap(s))
    \/ boots = 0 /\ from_flags(TRUE, TRUE)
    \/ \E s \in SwarmIds, i \in 1..MaxEvents :
            PushReceive(s, i, TRUE, TRUE, TRUE, TRUE)
    \/ PushDetails(TRUE)
    \/ PushPosted(TRUE)
    \/ PushUpdate
    \/ PollSnapshot
    \/ \E u \in Users : FetchReturn(u, TRUE, TRUE)
    \/ PollJoin
    \/ \E u \in Users : PollNext(u, TRUE)
    \/ PollDone
    \/ PollDetails(TRUE)
    \/ PollPosted(TRUE)
    \/ PollReturn
    \/ PollUpdate

SpecTwo == InitPoll /\ [][NextTwo]_vars

\* The linking routes with any origin user: an account may link an origin
\* user another account has linked, and link again with another origin user;
\* the push handler delivers the checkins of both origin users.
NextLink ==
    \/ \E s \in SwarmIds : NewEvent(s, "shout", MaxOther)
    \/ \E polling \in BOOLEAN : boots = 0 /\ from_flags(polling, TRUE)
    \/ \E u \in Users : get_mastodon_callback(u)
    \/ \E u \in Users, s \in SwarmIds : get_swarm_callback(u, s)
    \/ \E s \in SwarmIds, i \in 1..MaxOther :
            PushReceive(s, i, TRUE, TRUE, TRUE, TRUE)
    \/ \E detailsOk \in BOOLEAN : PushDetails(detailsOk)
    \/ \E postOk \in BOOLEAN : PushPosted(postOk)
    \/ PushUpdate

SpecLink == Init /\ [][NextLink]_vars

\* The process is stopped and started again; no push is delivered and no
\* account is linked meanwhile.
NextRestart ==
    \/ \E s \in SwarmIds, k \in Kinds : NewEvent(s, k, FeedCap(s))
    \/ Shutdown
    \/ \E polling \in BOOLEAN, httpOk \in BOOLEAN :
            boots < MaxBoots /\ from_flags(polling, httpOk)
    \/ PollSnapshot
    \/ \E u \in Users, dbOk \in BOOLEAN, httpOk \in BOOLEAN : FetchReturn(u, dbOk, httpOk)
    \/ PollJoin
    \/ \E u \in Users, dbOk \in BOOLEAN : PollNext(u, dbOk)
    \/ PollDone
    \/ \E detailsOk \in BOOLEAN : PollDetails(detailsOk)
    \/ \E postOk \in BOOLEAN : PollPosted(postOk)
    \/ PollReturn
    \/ PollUpdate

SpecRestart == Init /\ [][NextRestart]_vars

\* The poll loop alone on one linked account of a running process: the feed
\* and the watermark are drawn from every feed of up to MaxFeed checkins and
\* every watermark the account can hold: a public checkin of the feed (as a
\* push writes it), or the id of a checkin that is not in the feed (the
\* checkin of another origin user, left from before a re-link).
SeqsUpTo(n) == UNION {[1..m -> Kinds] : m \in 0..n}

InitSelect ==
    /\ proc = "running"
    /\ with_polling = TRUE
    /\ user = [u \in {"u1"} |-> linked_user("s1")]
    /\ swarm_mapping = [s \in {"s1"} |-> "u1"]
    /\ \E f \in SeqsUpTo(MaxFeed) :
         /\ feed = [s \in SwarmIds |-> IF s = "s1" THEN f ELSE <<>>]
         /\ bootLen = [s \in SwarmIds |-> IF s = "s1" THEN Len(f) ELSE 0]
         /\ \E W \in {<<"s1", i>> : i \in {j \in 1..Len(f) : f[j] # "private"}}
                       \cup {<<"s2", 1>>} :
              last_checkin = [u \in {"u1"} |-> W]
    /\ lastWriter = [u \in {"u1"} |-> "push"]
    /\ lock = "free"
    /\ phase = "sleep"
    /\ snap = EmptyMap
    /\ task = EmptyMap
    /\ todo = {}
    /\ cur = "none"
    /\ batch = <<>>
    /\ pos = 0
    /\ dpc = "none"
    /\ ppc = "idle"
    /\ pev = NoId
    /\ puser = "none"
    /\ pushLog = EmptyMap
    /\ disp = {}
    /\ lastDisp = [u \in Users |-> NoId]
    /\ posted = {}
    /\ reposted = {}
    /\ snapWriter = EmptyMap
    /\ snapF = EmptyMap
    /\ lastF = EmptyMap
    /\ prevMark = EmptyMap
    /\ boots = 1
    /\ resp = EmptyMap
    /\ calls = [push |-> 0, poll |-> 0]
    /\ NoText
    /\ NoStore

NextSelect ==
    \/ \E k \in Kinds : NewEvent("s1", k, MaxFeed)
    \/ PollSnapshot
    \/ \E u \in Users, dbOk \in BOOLEAN, httpOk \in BOOLEAN : FetchReturn(u, dbOk, httpOk)
    \/ PollJoin
    \/ \E u \in Users, dbOk \in BOOLEAN : PollNext(u, dbOk)
    \/ PollDone
    \/ \E detailsOk \in BOOLEAN : PollDetails(detailsOk)
    \/ \E postOk \in BOOLEAN : PollPosted(postOk)
    \/ PollReturn
    \/ PollUpdate

SpecSelect == InitSelect /\ [][NextSelect]_vars

\* The same loop on a feed that stays as drawn, when every call the poll task
\* awaits returns and the runtime keeps scheduling the task.
NextSelectFair ==
    \/ PollSnapshot
    \/ \E u \in Users, dbOk \in BOOLEAN, httpOk \in BOOLEAN : FetchReturn(u, dbOk, httpOk)
    \/ PollJoin
    \/ \E u \in Users, dbOk \in BOOLEAN : PollNext(u, dbOk)
    \/ PollDone
    \/ \E detailsOk \in BOOLEAN : PollDetails(detailsOk)
    \/ \E postOk \in BOOLEAN : PollPosted(postOk)
    \/ PollReturn
    \/ PollUpdate

SpecSelectFair == InitSelect /\ [][NextSelectFair]_vars /\ PollFairness

\* The status text of one checkin: the checkin and the friends map are drawn
\* from the companions lists, the friends maps, the locations and the shouts
\* below, and post_checkin builds the text from them. The relay is down.
Alex == [first_name |-> "Alex", handle |-> "alex"]
Bob == [first_name |-> "Bob", handle |-> "bob"]
WithLists == {<<>>, <<Alex>>, <<Alex, Bob>>}

FriendsMaps ==
    UNION {[H -> {"alex@example.com"}] : H \in SUBSET {"alex", "bob"}}

Locations ==
    [city : {None, Some(<<"New York">>)},
     state : {None, Some(<<"NY">>)},
     country : {None, Some(<<"United States">>)}]

\* The pieces of a shout: content, whitespace, the word "with", and the
\* companions suffix of one and of two companions.
Chunks == {<<"x">>, <<" ">>, <<"with">>, with_names(<<Alex>>), with_names(<<Alex, Bob>>)}

Shouts ==
    {None} \cup UNION {{Some(join(cs, <<>>)) : cs \in [1..n -> Chunks]} : n \in 0..MaxChunks}

InitText ==
    /\ proc = "down"
    /\ with_polling = FALSE
    /\ user = EmptyMap
    /\ swarm_mapping = EmptyMap
    /\ feed = [s \in SwarmIds |-> <<>>]
    /\ last_checkin = EmptyMap
    /\ lock = "free"
    /\ phase = "sleep"
    /\ snap = EmptyMap
    /\ task = EmptyMap
    /\ todo = {}
    /\ cur = "none"
    /\ batch = <<>>
    /\ pos = 0
    /\ dpc = "none"
    /\ ppc = "idle"
    /\ pev = NoId
    /\ puser = "none"
    /\ pushLog = EmptyMap
    /\ disp = {}
    /\ lastDisp = [u \in Users |-> NoId]
    /\ posted = {}
    /\ reposted = {}
    /\ lastWriter = EmptyMap
    /\ snapWriter = EmptyMap
    /\ snapF = EmptyMap
    /\ lastF = EmptyMap
    /\ prevMark = EmptyMap
    /\ bootLen = [s \in SwarmIds |-> 0]
    /\ boots = 0
    /\ resp = EmptyMap
    /\ calls = [push |-> 0, poll |-> 0]
    /\ file = NoFile
    /\ friends_map \in FriendsMaps
    /\ \E s \in Shouts, w \in WithLists, l \in Locations :
            checkin = [shout |-> s, with |-> w, location |-> l]
    /\ shout_out = None
    /\ country_out = None
    /\ built = FALSE
    /\ NoStore

\* User::post_checkin, lines 166-183: the location display and the shout.
build_status ==
    /\ ~built
    /\ built' = TRUE
    /\ country_out' = to_string(checkin.location)
    /\ shout_out' = get_shout(checkin, friends_map)
    /\ UNCHANGED <<proc, with_polling, user, swarm_mapping, feed, last_checkin,
                   lock, pollVars, pushVars, pushLog, histVars, lastWriter,
                   lastF, prevMark, bootLen, resp, calls, file, friends_map,
                   checkin, storeVars>>

NextText == build_status

SpecText == InitText /\ [][NextText]_vars

\* The friends-map file at startup: the flag, whether the file can be read
\* and its lines are drawn, the process starts, and post_checkin builds the
\* text of a checkin with companions from the map the process holds.
Lines ==
    {<<"alex", "=", "alex@example.com">>, <<"bob", "=", "bob@example.com">>,
     <<"alex", "=", "a", "=", "b">>, <<"=", "x">>, <<"alex">>, <<>>}

Files ==
    {NoFile, [flag |-> TRUE, readable |-> FALSE, lines |-> <<>>]}
    \cup UNION {{[flag |-> TRUE, readable |-> TRUE, lines |-> l] : l \in [1..n -> Lines]}
                 : n \in 0..MaxLines}

InitFriends ==
    /\ proc = "down"
    /\ with_polling = FALSE
    /\ user = EmptyMap
    /\ swarm_mapping = EmptyMap
    /\ feed = [s \in SwarmIds |-> <<>>]
    /\ last_checkin = EmptyMap
    /\ lock = "free"
    /\ phase = "sleep"
    /\ snap = EmptyMap
    /\ task = EmptyMap
    /\ todo = {}
    /\ cur = "none"
    /\ batch = <<>>
    /\ pos = 0
    /\ dpc = "none"
    /\ ppc = "idle"
    /\ pev = NoId
    /\ puser = "none"
    /\ pushLog = EmptyMap
    /\ disp = {}
    /\ lastDisp = [u \in Users |-> NoId]
    /\ posted = {}
    /\ reposted = {}
    /\ lastWriter = EmptyMap
    /\ snapWriter = EmptyMap
    /\ snapF = EmptyMap
    /\ lastF = EmptyMap
    /\ prevMark = EmptyMap
    /\ bootLen = [s \in SwarmIds |-> 0]
    /\ boots = 0
    /\ resp = EmptyMap
    /\ calls = [push |-> 0, poll |-> 0]
    /\ file \in Files
    /\ friends_map = EmptyMap
    /\ \E w \in WithLists : \E s \in {<<"x">>, <<"x", " ">> \o with_names(w)} :
            checkin = [shout |-> Some(s), with |-> w, location |-> NoLocation]
    /\ shout_out = None
    /\ country_out = None
    /\ built = FALSE
    /\ NoStore

NextFriends ==
    \/ \E polling \in BOOLEAN : boots = 0 /\ from_flags(polling, TRUE)
    \/ proc = "running" /\ build_status

SpecFriends == InitFriends /\ [][NextFriends]_vars

\* The user tree alone, as test_get_users drives it: the tree is cleared,
\* users are inserted under the account keys (a key may be written again),
\* and get_users lists the tree. The relay is down.
InitStore ==
    /\ InitText
    /\ friends_map = EmptyMap
    /\ checkin = [shout |-> None, with |-> <<>>, location |-> NoLocation]

\* db.user.clear()
db_clear ==
    /\ tree # EmptyMap
    /\ tree' = EmptyMap
    /\ put' = EmptyMap
    /\ users_out' = None
    /\ listed' = FALSE
    /\ UNCHANGED <<proc, with_polling, user, swarm_mapping, feed, last_checkin,
                   lock, pollVars, pushVars, pushLog, histVars, lastWriter,
                   lastF, prevMark, bootLen, resp, calls, textVars>>

\* db.user.insert(key, bincode::serialize(&user)); the result of an earlier
\* get_users has been dropped.
db_insert(k, u) ==
    /\ tree' = insert(tree, k, serialize(u))
    /\ put' = insert(put, k, u)
    /\ users_out' = None
    /\ listed' = FALSE
    /\ UNCHANGED <<proc, with_polling, user, swarm_mapping, feed, last_checkin,
                   lock, pollVars, pushVars, pushLog, histVars, lastWriter,
                   lastF, prevMark, bootLen, resp, calls, textVars>>

\* let users = db.get_users()
db_get_users ==
    /\ ~listed
    /\ users_out' = get_users(tree)
    /\ listed' = TRUE
    /\ UNCHANGED <<proc, with_polling, user, swarm_mapping, feed, last_checkin,
                   lock, pollVars, pushVars, pushLog, histVars, lastWriter,
                   lastF, prevMark, bootLen, resp, calls, textVars, tree, put>>

NextStore ==
    \/ db_clear
    \/ \E k \in Users, u \in StoredUsers : db_insert(k, u)
    \/ db_get_users

SpecStore == InitStore /\ [][NextStore]_vars

\* ------------------------------------------------------------ claims

Kind(e) == feed[e[1]][e[2]]

\* C1: for one account, over any interleaving of push deliveries (each
\* checkin pushed at most once) and poll iterations, no checkin id is posted
\* to the destination more than once.
C1_PostedAtMostOnce == reposted = {}

\* C2: when the fetch of one account fails in a poll iteration, the accounts
\* whose fetch succeeded with new checkins are still dispatched in that
\* iteration: the iteration never goes from fetching straight back to the
\* sleep while such an account waits.
C2_FetchFailureIsolated ==
    [][(phase = "fetching" /\ phase' = "sleep" /\ proc' = "running")
        => \A u \in DOMAIN task : ~(task[u].st = "ok" /\ task[u].sel # <<>>)]_vars

\* C3: a private checkin is never posted, on the push path or on the poll
\* path, and its id is never an account's watermark.
C3_PrivateNeverRelayed ==
    /\ \A p \in posted : Kind(p[2]) # "private"
    /\ \A p \in disp : Kind(p[2]) # "private"
    /\ \A u \in DOMAIN last_checkin : Kind(last_checkin[u]) # "private"

\* A private checkin was pushed and turned away as private, and a fetch task
\* of the poll loop got the page that holds it.
C3_Witness ==
    \E s \in SwarmIds : \E i \in 1..Len(feed[s]) :
        /\ feed[s][i] = "private"
        /\ <<s, i>> \in DOMAIN pushLog
        /\ pushLog[<<s, i>>] = "private"
        /\ i > Len(feed[s]) - PageSize
        /\ \E u \in DOMAIN task :
            /\ task[u].st = "ok"
            /\ u \in DOMAIN user
            /\ user[u].swarm_access_token = s

\* The index of watermark W in feed F (ids are unique in a feed), 0 if absent.
IndexOf(F, W) ==
    IF \E i \in 1..Len(F) : F[i].id = W
    THEN CHOOSE i \in 1..Len(F) : F[i].id = W
    ELSE 0

\* reverse(F[0..n]): the first n checkins of F, oldest first.
ReversePrefix(F, n) == [k \in 1..n |-> F[n + 1 - k]]

\* reverse(F[0..i]) for W at index i of F, reverse(F) for W not in F.
SelectNew(F, W) ==
    IF IndexOf(F, W) = 0 THEN ReversePrefix(F, Len(F))
    ELSE ReversePrefix(F, IndexOf(F, W) - 1)

\* C4: for a newest-first feed F and watermark W, the poll path selects
\* reverse(F[0..i]) when W is the id at index i of F, and reverse(F) when W
\* is the id of no checkin of F.
C4_SelectNew ==
    \A u \in DOMAIN task :
        task[u].st = "ok" =>
            /\ Reverse(task[u].sel) = SelectNew(task[u].F, snap[u])
            /\ (cur = u => batch = SelectNew(task[u].F, snap[u]))

\* The batch of two checkins that precede the watermark, found third in the
\* feed, is being dispatched.
C4_Witness ==
    /\ cur \in DOMAIN task
    /\ IndexOf(task[cur].F, snap[cur]) = 3
    /\ Len(batch) = 2

\* C5: after a poll iteration has dispatched a batch for an account and
\* advanced its watermark, the next iteration over the same feed, no push
\* having written the watermark meanwhile, selects nothing for the account
\* and dispatches nothing for it.
SameFeedAfterPollWrite(u) ==
    /\ u \in DOMAIN task
    /\ task[u].st = "ok"
    /\ u \in DOMAIN snapWriter
    /\ snapWriter[u] = "poll"
    /\ u \in DOMAIN snapF
    /\ task[u].F = snapF[u]

C5_SecondPollSelectsNothing ==
    \A u \in Users :
        SameFeedAfterPollWrite(u) => (task[u].sel = <<>> /\ cur # u)

\* The second iteration has fetched the unchanged feed and is iterating over
\* the joined results.
C5_Witness ==
    /\ phase = "dispatching"
    /\ \E u \in Users : SameFeedAfterPollWrite(u) /\ u \notin todo

\* C6: within one account a checkin is never dispatched after a newer
\* checkin of the same feed has been dispatched, over any interleaving of
\* push deliveries and poll iterations.
C6_OldestFirst ==
    \A u \in Users :
        lastDisp[u] # NoId =>
            \A p \in disp :
                (p[1] = u /\ p[2][1] = lastDisp[u][1]) => p[2][2] <= lastDisp[u][2]

\* C7: the watermark lock is never held while an external call of the poll
\* loop (feed fetch, detail fetch, destination post) is in flight.
PollCallInFlight ==
    \/ \E u \in DOMAIN task : task[u].st = "inflight"
    \/ dpc \in {"details", "post"}

C7_LockNotHeldAcrossCalls == lock = "poll" => ~PollCallInFlight

\* C8: the watermark last written for an account survives a restart: after a
\* restart with polling the account's watermark is the one it had when the
\* process stopped.
C8_WatermarkSurvivesRestart ==
    \A u \in DOMAIN prevMark :
        (proc = "running" /\ with_polling /\ u \in DOMAIN lastWriter
            /\ lastWriter[u] = "startup")
        => last_checkin[u] = prevMark[u]

\* C9: every poll iteration fetches every account that is linked in the user
\* directory when the iteration starts.
C9_PollCoversDirectory ==
    [][(phase = "sleep" /\ phase' = "fetching")
        => \A u \in DOMAIN user : user[u].swarm_id # "" => u \in DOMAIN task']_vars

\* C10: once the store is open, startup with polling always completes.
C10_StartupCompletes == proc # "panicked"

\* C11: in the dispatching phase a failed detail fetch, a failed post or a
\* failed directory lookup for one account leaves the other accounts of the
\* iteration their turn: the for loop drops one account at a time, it ends
\* only when every account has had its turn, a batch that was started ends
\* only with the watermark write after its last checkin, and the loop always
\* returns to its sleep.
C11_DispatchFailureIsolated ==
    /\ [][(phase = "dispatching" /\ phase' = "dispatching" /\ todo' # todo)
            => \E u \in todo : /\ todo' = todo \ {u}
                                /\ cur' \in {u, "none"}
                                /\ (cur' = "none" \/ task[u].sel # <<>>)]_vars
    /\ [][(phase = "dispatching" /\ phase' # "dispatching")
            => (phase' = "sleep" /\ todo = {} /\ cur = "none")]_vars
    /\ [][(cur # "none" /\ cur' # cur)
            => /\ cur' = "none"
               /\ pos = Len(batch)
               /\ last_checkin'[cur] = batch[Len(batch)].id]_vars
    /\ (phase = "dispatching") ~> (phase = "sleep")

\* Both accounts of one iteration had a batch whose newest checkin failed at
\* the detail fetch, and both have their watermark written by the iteration.
C11_Witness ==
    /\ phase = "dispatching"
    /\ todo = {}
    /\ cur = "none"
    /\ \A u \in Users :
          /\ u \in DOMAIN task
          /\ task[u].sel # <<>>
          /\ last_checkin[u] = task[u].sel[1].id
          /\ Kind(task[u].sel[1].id) = "shout"
          /\ <<u, task[u].sel[1].id>> \in disp \ posted

\* C12: every push delivery that has ended got a success response, whatever
\* path the handler took: turned away, private, or dispatched with any
\* result of post_checkin.
C12_PushAlwaysSucceeds ==
    /\ \A e \in DOMAIN resp : resp[e] = "ok"
    /\ \A e \in DOMAIN pushLog : e # pev => e \in DOMAIN resp

\* One delivery was turned away, another one was dispatched and failed at the
\* detail fetch (a checkin with a shout that was not posted); both have
\* their response.
C12_Witness ==
    \E e1, e2 \in DOMAIN resp :
        /\ pushLog[e1] = "rejected"
        /\ pushLog[e2] = "dispatched"
        /\ Kind(e2) = "shout"
        /\ \A u \in Users : <<u, e2>> \notin posted

\* The poll task starts the dispatch of checkin e for account u in this step.
PollStarts(u, e) ==
    /\ cur' = u
    /\ dpc' = "details"
    /\ (cur # u \/ pos' # pos)
    /\ batch'[pos'].id = e

\* The poll task has dispatched e for u in an earlier batch, without a post
\* (skipped, or failed at the detail fetch); no push has dispatched e.
EndedUnposted(u, e) ==
    /\ <<u, e>> \in disp
    /\ <<u, e>> \notin posted
    /\ (e \in DOMAIN pushLog => pushLog[e] # "dispatched")
    /\ cur # u

\* C13: a dispatch that ends skipped or failed is followed by the same
\* watermark write as one that posted (the pushed id on the push path, the
\* newest id of the batch on the poll path), and a checkin whose dispatch
\* ended that way on the poll path is not dispatched again by a later poll
\* iteration whose watermark is in the fetched feed.
C13_HandledNotRetried ==
    /\ [][(ppc \in Returned /\ ppc' = "idle" /\ with_polling)
            => last_checkin'[puser] = pev]_vars
    /\ [][(dpc \in Returned /\ dpc' # dpc /\ pos = Len(batch))
            => dpc' = "update"]_vars
    /\ [][(dpc = "update" /\ dpc' # "update")
            => last_checkin'[cur] = batch[Len(batch)].id]_vars
    /\ [][\A u \in DOMAIN task : \A e \in {p[2] : p \in disp} :
            (EndedUnposted(u, e) /\ IndexOf(task[u].F, snap[u]) # 0)
                => ~PollStarts(u, e)]_vars

\* A delivery of checkin i of s would pass every test of the handler: the
\* checkin is public, its author maps to an account of the directory, and no
\* delivery of it was handled yet.
Deliverable(s, i) ==
    /\ proc = "running"
    /\ ppc = "idle"
    /\ i \in 1..Len(feed[s])
    /\ <<s, i>> \notin DOMAIN pushLog
    /\ feed[s][i] # "private"
    /\ s \in DOMAIN swarm_mapping
    /\ swarm_mapping[s] \in DOMAIN user

\* C14: a push that passes the handler's tests is dispatched whatever the
\* account's watermark is (the pushed id itself or a newer one included),
\* and the handler then overwrites the watermark with the pushed id.
C14_PushUnconditional ==
    /\ [](\A s \in SwarmIds : \A i \in 1..MaxEvents :
            Deliverable(s, i) =>
                ENABLED (/\ PushReceive(s, i, TRUE, TRUE, TRUE, TRUE)
                         /\ ppc' = "details"
                         /\ pev' = <<s, i>>
                         /\ <<swarm_mapping[s], <<s, i>>>> \in disp'))
    /\ [][(ppc \in Returned /\ ppc' # ppc /\ with_polling)
            => (ppc' = "idle" /\ last_checkin'[puser] = pev)]_vars

\* The push of a checkin older than the account's watermark has been
\* dispatched and is about to overwrite the watermark.
C14_Witness ==
    /\ ppc \in Returned
    /\ with_polling
    /\ puser \in DOMAIN last_checkin
    /\ last_checkin[puser][1] = pev[1]
    /\ last_checkin[puser][2] > pev[2]

\* C15: on the push path the dispatch of a checkin that has no shout is not
\* skipped: when post_checkin returns past the detail fetch, one post (the
\* generic text) has been made for it.
C15_PushNoShoutPosted ==
    (ppc \in Returned \ {"failed"} /\ Kind(pev) = "noshout")
        => (ppc # "skipped" /\ calls.push = 1)

\* C15 as amended: on the push path the dispatch of a checkin that has no
\* shout never reaches new_status: post_checkin returns skipped (or failed at
\* the detail fetch) and no post call has been made.
C15_PushNoShoutSkipped ==
    (ppc # "idle" /\ Kind(pev) = "noshout")
        => (ppc \in {"details", "skipped", "failed"} /\ calls.push = 0)

\* The push handler's post_checkin has returned from the skip.
C15_Witness ==
    /\ ppc = "skipped"
    /\ Kind(pev) = "noshout"
    /\ pushLog[pev] = "dispatched"

\* C16: every dispatch that does not end skipped has made exactly one
\* new_status call when post_checkin returns, and no dispatch makes more than
\* one.
C16_OnePostUnlessSkipped ==
    /\ ppc \in Returned \ {"skipped"} => calls.push = 1
    /\ dpc \in Returned \ {"skipped"} => calls.poll = 1
    /\ calls.push <= 1
    /\ calls.poll <= 1

\* C16 as amended: a dispatch that gets past the detail fetch with a shout
\* has made exactly one new_status call when post_checkin returns, whether
\* the call succeeded or not; one that ends skipped or failed at the detail
\* fetch has made none; no dispatch makes more than one.
C16_OnePostPastDetails ==
    /\ ppc \in {"posted", "postfailed"} => calls.push = 1
    /\ ppc \in {"skipped", "failed"} => calls.push = 0
    /\ dpc \in {"posted", "postfailed"} => calls.poll = 1
    /\ dpc \in {"skipped", "failed"} => calls.poll = 0
    /\ calls.push <= 1
    /\ calls.poll <= 1

\* new_status has failed in the push handler and in the poll task, and both
\* post_checkin calls have returned after their single call.
C16_Witness ==
    /\ ppc = "postfailed"
    /\ dpc = "postfailed"
    /\ calls = [push |-> 1, poll |-> 1]

\* C17: with an empty companion list the resolved shout is the checkin's
\* shout unchanged, for every shout (an absent one included) and every
\* friends map.
C17_NoCompanionsUnchanged ==
    (built /\ checkin.with = <<>>) => shout_out = checkin.shout

\* A shout that ends with a companions suffix and has whitespace in front was
\* resolved with no companions and a friends map that knows Alex.
C17_Witness ==
    /\ built
    /\ checkin.with = <<>>
    /\ checkin.shout # None
    /\ Len(checkin.shout[1]) > 3
    /\ Head(checkin.shout[1]) = " "
    /\ ends_with(checkin.shout[1], with_names(<<Alex>>))
    /\ "alex" \in DOMAIN friends_map

\* C18: with a non-empty companion list, an absent shout and a shout that is
\* only "with " and the companions' first names joined by ", ", possibly
\* surrounded by whitespace, resolve to none.
C18_CompanionsOnlyIsNone ==
    (/\ built
     /\ checkin.with # <<>>
     /\ (checkin.shout = None \/ trim(checkin.shout[1]) = with_names(checkin.with)))
        => shout_out = None

\* The shout with its surrounding whitespace and its trailing companions
\* suffix removed.
Remainder(s, with) ==
    LET a == trim(s)
        wn == with_names(with)
    IN trim(IF ends_with(a, wn) THEN SubSeq(a, 1, Len(a) - Len(wn)) ELSE a)

\* "@" + friends_map[handle] for a companion of the friends map, the first
\* name for any other, in the order of the companion list, joined by ", ".
Rendered(with, fm) ==
    join([i \in 1..Len(with) |->
            IF with[i].handle \in DOMAIN fm
            THEN <<"@", fm[with[i].handle]>> ELSE <<with[i].first_name>>],
         <<",", " ">>)

\* C19: with a non-empty companion list and a shout with independent
\* content, the resolved shout is the remainder, " with ", and the rendered
\* companions.
C19_RebuiltShout ==
    (/\ built
     /\ checkin.with # <<>>
     /\ checkin.shout # None
     /\ Remainder(checkin.shout[1], checkin.with) # <<>>)
        => shout_out = Some(Remainder(checkin.shout[1], checkin.with)
                            \o <<" ", "with", " ">>
                            \o Rendered(checkin.with, friends_map))

\* The display the preference order gives: city and region, else region and
\* country, else the country alone, else none.
Display(loc) ==
    IF loc.city # None /\ loc.state # None
    THEN Some(loc.city[1] \o <<",", " ">> \o loc.state[1])
    ELSE IF loc.state # None /\ loc.country # None
    THEN Some(loc.state[1] \o <<",", " ">> \o loc.country[1])
    ELSE IF loc.country # None
    THEN Some(loc.country[1])
    ELSE None

\* C20: for every combination of present and absent city, region and
\* country, the location display is the one the preference order gives.
C20_LocationDisplay ==
    built => country_out = Display(checkin.location)

\* C21: get_users returns one entry for each account key of the tree and no
\* other, and the User of each entry is the User last inserted under its key:
\* destination credential, origin id and origin credential unchanged.
C21_GetUsersRoundTrip ==
    listed =>
        /\ users_out # None
        /\ DOMAIN users_out[1] = DOMAIN put
        /\ \A k \in DOMAIN put :
              /\ users_out[1][k].mastodon = put[k].mastodon
              /\ users_out[1][k].swarm_id = put[k].swarm_id
              /\ users_out[1][k].swarm_access_token = put[k].swarm_access_token

\* Both keys are listed, one with an empty origin id and a non-empty origin
\* credential, the other with fields of different lengths.
C21_Witness ==
    /\ listed
    /\ DOMAIN put = Users
    /\ put["u1"].swarm_id = <<>>
    /\ put["u1"].swarm_access_token # <<>>
    /\ Len(put["u2"].swarm_id) > Len(put["u2"].swarm_access_token)
    /\ put["u2"].mastodon # <<>>

\* A record of the directory whose origin id and origin credential are set.
BothLinked(r) == r.swarm_id # "" /\ r.swarm_access_token # ""

\* C22: a record enters the user directory only with both linkage steps
\* done, and stays so: every record that a step adds to the directory, and
\* every record that had them before the step, has a non-empty origin id and
\* a non-empty origin credential after it.
C22_DirectoryOnlyLinked ==
    [][\A u \in DOMAIN user' :
            (u \notin DOMAIN user \/ BothLinked(user[u])) => BothLinked(user'[u])]_vars

\* C23: the poll task goes through a batch oldest first, one checkin after
\* the other, each attempt starting when the one before has returned; it
\* leaves the watermark alone while the batch lasts and writes it once, when
\* the last attempt has returned, with the id of the newest checkin of the
\* batch; outside that write the poll loop never changes the watermark map.
C23_BatchThenOneWrite ==
    /\ [](cur # "none" =>
            /\ Len(batch) >= 1
            /\ pos \in 1..Len(batch)
            /\ \A k \in 1..(Len(batch) - 1) : batch[k].id[2] < batch[k + 1].id[2]
            /\ \A k \in 1..pos : <<cur, batch[k].id>> \in disp)
    /\ [][(cur = "none" /\ cur' # "none")
            => (pos' = 1 /\ dpc' = "details" /\ last_checkin' = last_checkin)]_vars
    /\ [][(cur # "none" /\ cur' = cur)
            => /\ last_checkin' = last_checkin
               /\ batch' = batch
               /\ pos' \in {pos, pos + 1}
               /\ (pos' = pos + 1 => (dpc \in Returned /\ dpc' = "details"))
               /\ ((dpc' = "update" /\ dpc # "update")
                      => (dpc \in Returned /\ pos = Len(batch)))]_vars
    /\ [][(cur # "none" /\ cur' # cur)
            => /\ cur' = "none"
               /\ dpc = "update"
               /\ pos = Len(batch)
               /\ last_checkin' = insert(last_checkin, cur, batch[Len(batch)].id)]_vars
    /\ [][last_checkin' # last_checkin => (cur # "none" /\ cur' = "none")]_vars

\* The three attempts of a batch of three have returned, the last one failed
\* at the detail fetch, and the watermark is still the one of the snapshot.
C23_Witness ==
    /\ cur # "none"
    /\ Len(batch) = 3
    /\ dpc = "update"
    /\ last_checkin[cur] = snap[cur]
    /\ <<cur, batch[3].id>> \notin posted
    /\ Kind(batch[3].id) = "shout"

Rejects(s, i, secretOk, parseOk, hasUser) ==
    \/ ~secretOk
    \/ ~parseOk
    \/ feed[s][i] = "private"
    \/ ~hasUser
    \/ s \notin DOMAIN swarm_mapping
    \/ swarm_mapping[s] \notin DOMAIN user

\* C25: the handler never goes on to post_checkin with a delivery it can
\* receive that has to be turned away, and the handling of a delivery that
\* does not go on to post_checkin starts no detail fetch and no post and
\* leaves the watermark of every account as it was.
C25_RejectedPushNoEffect ==
    /\ []((proc = "running" /\ ppc = "idle") =>
            \A s \in SwarmIds : \A i \in 1..Len(feed[s]) :
              <<s, i>> \notin DOMAIN pushLog =>
                \A secretOk \in BOOLEAN, parseOk \in BOOLEAN, hasUser \in BOOLEAN,
                   dbOk \in BOOLEAN :
                    Rejects(s, i, secretOk, parseOk, hasUser)
                        => push_outcome(s, i, secretOk, parseOk, hasUser, dbOk) # "dispatched")
    /\ [][\A e \in DOMAIN pushLog' \ DOMAIN pushLog :
            pushLog'[e] # "dispatched"
                => /\ ppc = "idle"
                   /\ ppc' = "idle"
                   /\ disp' = disp
                   /\ posted' = posted
                   /\ calls' = calls
                   /\ last_checkin' = last_checkin]_vars

\* With polling on, the delivery of a public checkin with a shout, whose
\* author has an account with a watermark, was turned away (wrong secret,
\* unparsable payload or missing author) and nothing was dispatched for it.
C25_Witness ==
    \E e \in DOMAIN pushLog :
        /\ pushLog[e] = "rejected"
        /\ Kind(e) = "shout"
        /\ with_polling
        /\ e[1] \in DOMAIN swarm_mapping
        /\ swarm_mapping[e[1]] \in DOMAIN last_checkin
        /\ <<swarm_mapping[e[1]], e>> \notin disp
        /\ e \in DOMAIN resp

\* What one call of update_last_checkin(u, e) does to the map: the entry of u
\* becomes e, whatever it was, every other entry stays as it was, and the
\* same call made once more on the result changes nothing.
UpdaterEffect(u, e) ==
    /\ DOMAIN last_checkin' = DOMAIN last_checkin \cup {u}
    /\ last_checkin'[u] = e
    /\ \A v \in DOMAIN last_checkin \ {u} : last_checkin'[v] = last_checkin[v]
    /\ insert(last_checkin', u, e) = last_checkin'

\* C26: in a running process with polling, the watermark map changes only in
\* the steps that call update_last_checkin (the push handler after
\* post_checkin, the poll task after its batch), and each call has the
\* effect above for its account and its id.
C26_OnlyUpdaterWrites ==
    /\ [][(proc = "running" /\ proc' = "running" /\ last_checkin' # last_checkin)
            => \/ (ppc \in Returned /\ ppc' = "idle")
               \/ (dpc = "update" /\ dpc' = "none")]_vars
    /\ [][(with_polling /\ proc' = "running" /\ ppc \in Returned /\ ppc' # ppc)
            => UpdaterEffect(puser, pev)]_vars
    /\ [][(with_polling /\ proc' = "running" /\ dpc = "update" /\ dpc' # dpc)
            => UpdaterEffect(cur, batch_last(batch))]_vars

\* A push has overwritten the watermark of the first account, written by the
\* poll loop before, with the id of an older checkin, and the second
\* account's watermark is the one of the startup.
C26_Witness ==
    /\ proc = "running"
    /\ with_polling
    /\ DOMAIN last_checkin = Users
    /\ lastWriter["u1"] = "push"
    /\ lastWriter["u2"] = "startup"
    /\ "u1" \in DOMAIN lastF
    /\ last_checkin["u1"][2] < Len(feed["s1"])
    /\ <<"u1", <<"s1", Len(feed["s1"])>>>> \in posted

\* Every fetch task of the iteration has completed.
AllFetched == \A u \in DOMAIN task : task[u].st # "inflight"

\* C27: while a fetch task of the iteration is in flight the poll task is in
\* no post_checkin (no detail fetch, no post), and every step in which the
\* poll task starts a dispatch or makes a post call is taken with one fetch
\* task completed for each account of the iteration's snapshot.
C27_DispatchAfterJoin ==
    /\ [](~AllFetched => (phase = "fetching" /\ cur = "none" /\ dpc = "none"))
    /\ [](dpc # "none" => (phase = "dispatching" /\ AllFetched
                           /\ DOMAIN task = DOMAIN snap))
    /\ [][(disp' # disp \/ posted' # posted \/ calls'.poll # calls.poll)
            => (phase = "dispatching" /\ AllFetched /\ DOMAIN task = DOMAIN snap)]_vars

\* The post call for a checkin of one account is in flight, and the other
\* account of the iteration, fetched with new checkins as well, waits for its
\* turn.
C27_Witness ==
    /\ dpc = "post"
    /\ DOMAIN task = Users
    /\ \E u \in todo : task[u].st = "ok" /\ task[u].sel # <<>>

\* C28: the iteration reads the watermarks once, in the step that takes the
\* lock at its start, and keeps that snapshot to its end; what it selects
\* for an account and the batch it dispatches are the checkins of the
\* fetched feed that precede the snapshot watermark, and a watermark write
\* of the push handler during the iteration changes neither the snapshot nor
\* the selection nor the batch.
C28_SnapshotDecides ==
    /\ [][(phase = "sleep" /\ phase' = "fetching")
            => (lock = "free" /\ lock' = "poll" /\ snap' = last_checkin)]_vars
    /\ [][(phase # "sleep" /\ phase' # "sleep") => snap' = snap]_vars
    /\ [](\A u \in DOMAIN task :
            task[u].st = "ok" => Reverse(task[u].sel) = SelectNew(task[u].F, snap[u]))
    /\ [](cur # "none" => batch = SelectNew(task[cur].F, snap[cur]))
    /\ [][(proc = "running" /\ proc' = "running" /\ ppc \in Returned /\ ppc' # ppc)
            => (snap' = snap /\ task' = task /\ todo' = todo /\ batch' = batch)]_vars

\* A push has overwritten the account's watermark after the snapshot was
\* taken, and the batch selected against the snapshot is being dispatched.
C28_Witness ==
    /\ phase = "dispatching"
    /\ cur \in DOMAIN last_checkin
    /\ lastWriter[cur] = "push"
    /\ last_checkin[cur] # snap[cur]
    /\ last_checkin[cur] = batch[Len(batch)].id

\* C29: on the poll path the dispatch of a checkin without a shout never
\* reaches new_status, no post is ever recorded for such a checkin, and when
\* its post_checkin has returned from the skip the batch goes on: to the
\* dispatch of the next checkin, or, after the last one, to the watermark
\* write.
C29_PollNoShoutSkipped ==
    /\ []((cur # "none" /\ dpc # "update" /\ Kind(batch[pos].id) = "noshout")
            => (dpc \in {"details", "skipped", "failed"} /\ calls.poll = 0))
    /\ [](\A p \in posted : Kind(p[2]) # "noshout")
    /\ [][(dpc = "details" /\ dpc' # dpc /\ Kind(batch[pos].id) = "noshout")
            => (dpc' \in {"skipped", "failed"} /\ posted' = posted)]_vars
    /\ [][(dpc = "skipped" /\ dpc' # dpc)
            => /\ cur' = cur
               /\ batch' = batch
               /\ IF pos < Len(batch)
                  THEN /\ pos' = pos + 1
                       /\ dpc' = "details"
                       /\ <<cur, batch[pos + 1].id>> \in disp'
                  ELSE dpc' = "update"]_vars

\* The first checkin of a batch had no shout and was skipped, and the second
\* one, which has a shout, is being posted.
C29_Witness ==
    /\ cur # "none"
    /\ pos = 2
    /\ dpc = "post"
    /\ Kind(batch[1].id) = "noshout"
    /\ <<cur, batch[1].id>> \in disp \ posted

\* C30: in a running process no write moves an account's watermark to an
\* older checkin of the same feed, whichever of the push handler and the
\* poll loop makes it.
C30_WatermarkNeverBackward ==
    [][(proc = "running" /\ proc' = "running")
        => \A u \in DOMAIN last_checkin \cap DOMAIN last_checkin' :
            last_checkin'[u][1] = last_checkin[u][1]
                => last_checkin'[u][2] >= last_checkin[u][2]]_vars

\* C31: every entry of swarm_mapping maps an origin user id s to an account
\* of the directory whose swarm_id is s, and the push handler makes a post
\* for a checkin of s only as an account whose swarm_id is s.
C31_IndexMatchesDirectory ==
    /\ [](\A s \in DOMAIN swarm_mapping :
            /\ swarm_mapping[s] \in DOMAIN user
            /\ user[swarm_mapping[s]].swarm_id = s)
    /\ [][(ppc = "details" /\ ppc' = "post") => user[puser].swarm_id = pev[1]]_vars

\* C32: while the process runs with polling disabled there is no watermark
\* map and the poll task is never past its start (no lock, no fetch task, no
\* post call of its own); no step changes the watermarks; and the push handler
\* dispatches every public delivered checkin whose author maps to an account,
\* makes the post call for it once the details are fetched and it has a shout,
\* and can always finish with its (empty) watermark write.
C32_PushOnlyWithoutPolling ==
    /\ []((proc = "running" /\ ~with_polling) =>
            /\ last_checkin = EmptyMap
            /\ phase = "sleep" /\ lock = "free" /\ task = EmptyMap
            /\ cur = "none" /\ dpc = "none" /\ calls.poll = 0
            /\ \A s \in SwarmIds : \A i \in 1..Len(feed[s]) :
                  (/\ ~SwarmCheckin(s, i).private
                   /\ s \in DOMAIN swarm_mapping
                   /\ swarm_mapping[s] \in DOMAIN user)
                  => push_outcome(s, i, TRUE, TRUE, TRUE, TRUE) = "dispatched"
            /\ (ppc \in Returned => ENABLED PushUpdate))
    /\ [][(proc = "running" /\ ~with_polling /\ proc' = "running") =>
            /\ last_checkin' = last_checkin
            /\ \A e \in DOMAIN pushLog' \ DOMAIN pushLog :
                  pushLog'[e] = "dispatched" =>
                     /\ <<swarm_mapping[e[1]], e>> \in disp'
                     /\ ppc' = "details" /\ pev' = e
            /\ (ppc = "details" /\ ppc' \notin {"details", "failed", "skipped"}) =>
                     (ppc' = "post" /\ <<puser, pev>> \in posted')]_vars

\* A push was dispatched, posted and answered with polling disabled.
C32_Witness ==
    /\ proc = "running" /\ ~with_polling
    /\ last_checkin = EmptyMap
    /\ \E e \in DOMAIN resp : pushLog[e] = "dispatched" /\ <<"u1", e>> \in posted

\* C33: while the fetch tasks of an iteration run the poll task makes no post
\* call and writes no watermark; when one of them has failed the iteration
\* ends at the join, with no dispatch, post or watermark write for any account
\* (those whose fetch succeeded with new checkins included), and the loop is
\* back at its sleep; the next iteration snapshots the watermarks as they are
\* when it starts.
C33_FetchErrorEndsIteration ==
    /\ [](phase = "fetching" => (cur = "none" /\ dpc = "none" /\ todo = {}))
    /\ [][phase = "fetching" =>
            /\ last_checkin' = last_checkin
            /\ posted' = posted /\ disp' = disp /\ calls'.poll = calls.poll]_vars
    /\ [][(/\ phase = "fetching" /\ phase' # "fetching"
            /\ \E u \in DOMAIN task : task[u].st = "err") =>
            /\ phase' = "sleep" /\ lock' = "free"
            /\ todo' = {} /\ cur' = "none" /\ dpc' = "none"]_vars
    /\ [][(phase = "sleep" /\ phase' = "fetching") =>
            (snap' = last_checkin /\ DOMAIN task' = DOMAIN last_checkin)]_vars

\* All fetch tasks are done: one failed, another selected new checkins.
C33_Witness ==
    /\ phase = "fetching"
    /\ \A u \in DOMAIN task : task[u].st # "inflight"
    /\ \E u \in DOMAIN task : task[u].st = "err"
    /\ \E u \in DOMAIN task : task[u].st = "ok" /\ task[u].sel # <<>>

\* The index of the newest non-private checkin among the first n of swarm
\* user s (0 when there is none).
NewestPublic(s, n) ==
    CHOOSE i \in 0..n :
        /\ (i = 0 \/ feed[s][i] # "private")
        /\ \A j \in (i + 1)..n : feed[s][j] = "private"

\* C34: a start with polling that completes sets every account's watermark to
\* the newest non-private checkin of its feed; and the poll task dispatches no
\* checkin that was in the feed at startup as long as the page it fetched
\* still holds the checkin the watermark was initialised to.
C34_PollOnlyAfterStartup ==
    /\ [][(proc # "running" /\ proc' = "running" /\ with_polling') =>
            \A u \in DOMAIN user :
               /\ u \in DOMAIN last_checkin'
               /\ last_checkin'[u] =
                    <<user[u].swarm_id,
                      NewestPublic(user[u].swarm_id, Len(feed[user[u].swarm_id]))>>]_vars
    /\ [][(with_polling /\ ppc' = ppc) =>
            \A p \in disp' \ disp :
               LET s == p[2][1]
                   F == task[p[1]].F
               IN (\E j \in 1..Len(F) : F[j].id = <<s, NewestPublic(s, bootLen[s])>>)
                  => p[2][2] > bootLen[s]]_vars

\* Every checkin the fetch task of account u selected has been dispatched.
AllSelectedDispatched(u) ==
    \A j \in 1..Len(task[u].sel) : <<u, task[u].sel[j].id>> \in disp

\* Account u was passed over as a whole: none of its selected checkins was
\* dispatched and its watermark is the one of the snapshot.
PassedOver(u) ==
    /\ \A j \in 1..Len(task[u].sel) : <<u, task[u].sel[j].id>> \notin disp
    /\ last_checkin[u] = snap[u]

\* C35 (as stated): every poll iteration that has started comes back to the
\* sleep, and when an iteration whose fetches succeeded ends, every checkin
\* its fetch selected above the snapshot watermark has been dispatched.
C35_IterationDispatchesAll ==
    /\ (phase # "sleep") ~> (phase = "sleep")
    /\ [][(phase = "dispatching" /\ phase' = "sleep") =>
            \A u \in DOMAIN task : AllSelectedDispatched(u)]_vars

\* C35 (amended): every poll iteration that has started comes back to the
\* sleep, and when an iteration whose fetches succeeded ends, every account
\* either had all its selected checkins dispatched, or was passed over as a
\* whole with its watermark left as it was.
C35_IterationDispatchesAllOrNone ==
    /\ (phase # "sleep") ~> (phase = "sleep")
    /\ [][(phase = "dispatching" /\ phase' = "sleep") =>
            \A u \in DOMAIN task : AllSelectedDispatched(u) \/ PassedOver(u)]_vars

\* An iteration is about to end after it dispatched a batch of at least two
\* checkins, one of them without a shout.
C35_Witness ==
    /\ phase = "dispatching" /\ todo = {} /\ cur = "none"
    /\ \E u \in DOMAIN task :
          /\ Len(task[u].sel) >= 2
          /\ AllSelectedDispatched(u)
          /\ \E j \in 1..Len(task[u].sel) : task[u].sel[j].shout = None

\* C36: the lock is held by the poll task only while its fetch tasks run; a
\* push handler whose post_checkin has returned eventually makes its watermark
\* write and responds; the poll task eventually takes the lock for the
\* snapshot of its next iteration, and eventually makes the watermark write
\* of every batch it has dispatched.
C36_NoDeadlockOnLock ==
    /\ [](lock = "poll" => phase = "fetching")
    /\ (ppc \in Returned) ~> (ppc = "idle")
    /\ [][(ppc \in Returned /\ ppc' # ppc) =>
            /\ pev \in DOMAIN resp'
            /\ (with_polling => last_checkin'[puser] = pev)]_vars
    /\ (proc = "running" /\ with_polling /\ phase = "sleep") ~> (lock = "poll")
    /\ (dpc = "update") ~> (dpc = "none")
    /\ [][(dpc = "update" /\ dpc' # dpc) =>
            last_checkin'[cur] = batch_last(batch)]_vars

\* A push handler is at its watermark write while the poll task holds the
\* lock for its fetch phase.
C36_Witness ==
    /\ with_polling
    /\ ppc \in Returned
    /\ lock = "poll"
    /\ ~ENABLED PushUpdate

\* The file is given and cannot be read, or one of its lines has no '='.
BadFile(f) ==
    f.flag /\ (~f.readable \/ \E i \in 1..Len(f.lines) :
                                \A p \in 1..Len(f.lines[i]) : f.lines[i][p] # "=")

\* C37: with such a file the startup still completes and the process holds
\* an empty friends map, whatever the other lines of the file are; the text
\* built for a checkin with companions then names every companion by first
\* name and holds no mention.
C37_BadFriendsFileDiscarded ==
    /\ [][(BadFile(file) /\ proc = "down" /\ proc' # "down") =>
            (proc' = "running" /\ friends_map' = EmptyMap)]_vars
    /\ []((BadFile(file) /\ proc = "running" /\ built /\ checkin.with # <<>>) =>
            /\ shout_out # None
            /\ \A p \in 1..Len(shout_out[1]) : shout_out[1][p] # "@"
            /\ ends_with(shout_out[1], with_names(checkin.with)))

\* A file with a line for alex and a line without '=' was loaded, and the
\* text of a checkin with alex was built.
C37_Witness ==
    /\ proc = "running" /\ built
    /\ file.flag /\ file.readable
    /\ \E i, j \in 1..Len(file.lines) :
          /\ file.lines[i] = <<"alex", "=", "alex@example.com">>
          /\ file.lines[j] = <<"alex">>
    /\ checkin.with # <<>>
    /\ shout_out # None

====
